---- MODULE Spec2Model ----
(***************************************************************************)
(* Model of the similarity-search layer of the RAG backend:                *)
(*   core/math_utils.py          cosine_similarity                         *)
(*   core/azure_vector_store.py  AzureOpenAIVectorStore                    *)
(*   main.py                     AlpinaRAGSystem.process_multimodal_query  *)
(*   core/system_configuration.py SystemConfigurationManager               *)
(*                                                                         *)
(* Embeddings are sequences of small integers.  A similarity score is kept *)
(* exactly as the signed square of the cosine, a fraction [num, den] with  *)
(* den > 0: sign(dot) * dot^2 / (|a|^2 * |b|^2).  The signed square is     *)
(* strictly monotone on [-1, 1], so order and equality of scores are those *)
(* of the cosine itself.                                                   *)
(***************************************************************************)
EXTENDS Integers, Sequences, FiniteSets, TLC

\* ------------------------------------------------------------------ bounds
MaxAdds == 2        \* add_document calls that reach uuid4() in one behaviour
MaxK == 2           \* largest k handed to similarity_search
MaxDim == 2         \* longest vector handed to the vector primitives
MaxCandidates == 3  \* most vectors handed to vector_mean and top_k_similar

\* ------------------------------------------------------- program constants
CurrentYear == 2024            \* datetime.now().year in _enrich_metadata

\* --------------------------------------------------------- small utilities
Range(s) == {s[i] : i \in 1..Len(s)}

Min2(a, b) == IF a <= b THEN a ELSE b

\* s[:k] for k >= 0
Take(s, k) == SubSeq(s, 1, Min2(k, Len(s)))

\* the sequence s without its element at position i
RemoveAt(s, i) == SubSeq(s, 1, i - 1) \o SubSeq(s, i + 1, Len(s))

RECURSIVE SumTo(_, _)
\* sum(f[1..n])
SumTo(f, n) == IF n = 0 THEN 0 ELSE f[n] + SumTo(f, n - 1)

\* ------------------------------------------------------------ vector maths
\* sum(a * b for a, b in zip(vec1, vec2)); zip stops at the shorter vector
ZipDot(vec1, vec2) ==
    LET n == Min2(Len(vec1), Len(vec2))
    IN  SumTo([i \in 1..n |-> vec1[i] * vec2[i]], n)

\* a score as an exact fraction
Frac(n, d) == [num |-> n, den |-> d]

ScoreGeq(s, t) == s.num * t.den >= t.num * s.den
ScoreGt(s, t) == s.num * t.den > t.num * s.den
ScoreEq(s, t) == s.num * t.den = t.num * s.den

cosine_similarity_unsigned(vec1, vec2) ==
    IF Len(vec1) # Len(vec2)
    THEN [raised |-> TRUE, value |-> Frac(0, 1)]
    ELSE LET dot  == ZipDot(vec1, vec2)
             sq1  == ZipDot(vec1, vec1)
             sq2  == ZipDot(vec2, vec2)
         IN  IF sq1 = 0 \/ sq2 = 0
             THEN [raised |-> FALSE, value |-> Frac(0, 1)]
             ELSE [raised |-> FALSE, value |-> Frac(dot * dot, sq1 * sq2)]

cosine_similarity_divides(vec1, vec2) ==
    IF Len(vec1) # Len(vec2)
    THEN [raised |-> TRUE, value |-> Frac(0, 1)]
    ELSE LET dot  == ZipDot(vec1, vec2)
             sq1  == ZipDot(vec1, vec1)
             sq2  == ZipDot(vec2, vec2)
         IN  IF sq1 * sq2 = 0
             THEN [raised |-> TRUE, value |-> Frac(0, 1)]
             ELSE [raised |-> FALSE,
                   value |-> Frac((IF dot < 0 THEN -1 ELSE 1) * dot * dot, sq1 * sq2)]

\* cosine_similarity(vec1, vec2): raises ValueError on unequal lengths,
\* 0.0 when a magnitude is zero, else dot / (|vec1| * |vec2|) clamped to
\* [-1, 1]
cosine_similarity(vec1, vec2) ==
    IF Len(vec1) # Len(vec2)
    THEN [raised |-> TRUE, value |-> Frac(0, 1)]
    ELSE LET dot  == ZipDot(vec1, vec2)
             sq1  == ZipDot(vec1, vec1)
             sq2  == ZipDot(vec2, vec2)
             sim  == Frac((IF dot < 0 THEN -1 ELSE 1) * dot * dot, sq1 * sq2)
         IN  IF sq1 = 0 \/ sq2 = 0
             THEN [raised |-> FALSE, value |-> Frac(0, 1)]
             ELSE [raised |-> FALSE,
                   value |-> IF ScoreGt(sim, Frac(1, 1)) THEN Frac(1, 1)
                             ELSE IF ScoreGt(Frac(-1, 1), sim) THEN Frac(-1, 1)
                             ELSE sim]

\* euclidean_distance(vec1, vec2): raises ValueError on unequal lengths;
\* the value is kept as the square of the distance
euclidean_distance(vec1, vec2) ==
    IF Len(vec1) # Len(vec2)
    THEN [raised |-> TRUE, value |-> Frac(0, 1)]
    ELSE LET n == Len(vec1)
         IN  [raised |-> FALSE,
              value |-> Frac(SumTo([i \in 1..n |-> (vec1[i] - vec2[i]) * (vec1[i] - vec2[i])],
                                   n), 1)]

dot_product_unchecked(vec1, vec2) ==
    [raised |-> FALSE, value |-> Frac(ZipDot(vec1, vec2), 1)]

\* dot_product(vec1, vec2): raises ValueError on unequal lengths
dot_product(vec1, vec2) ==
    IF Len(vec1) # Len(vec2)
    THEN [raised |-> TRUE, value |-> Frac(0, 1)]
    ELSE [raised |-> FALSE, value |-> Frac(ZipDot(vec1, vec2), 1)]

RECURSIVE MeanFrom(_, _, _, _)
\* the summing loop of vector_mean from the i-th vector on: raised when a
\* vector's length differs from vector_length
MeanFrom(vectors, vector_length, i, mean) ==
    IF i > Len(vectors) THEN [raised |-> FALSE, mean |-> mean]
    ELSE IF Len(vectors[i]) # vector_length THEN [raised |-> TRUE, mean |-> <<>>]
    ELSE MeanFrom(vectors, vector_length, i + 1,
                  [j \in 1..vector_length |-> mean[j] + vectors[i][j]])

\* vector_mean(vectors): [] for no vectors, ValueError when a vector's
\* length differs from the first one's, else the component-wise mean
vector_mean(vectors) ==
    IF Len(vectors) = 0 THEN [raised |-> FALSE, list |-> <<>>]
    ELSE LET num_vectors == Len(vectors)
             vector_length == Len(vectors[1])
             summed == MeanFrom(vectors, vector_length, 1,
                                [j \in 1..vector_length |-> 0])
         IN  IF summed.raised THEN [raised |-> TRUE, list |-> <<>>]
             ELSE [raised |-> FALSE,
                   list |-> [j \in 1..vector_length |-> Frac(summed.mean[j], num_vectors)]]

\* ------------------------------------------------------------------- state
VARIABLES
    documents,          \* self.documents: ordered dict, a sequence of [key, doc]
    document_ids,       \* self.document_ids
    embeddings_matrix,  \* self.embeddings_matrix: [none, rows]
    file,               \* the snapshot file save_to_file / load_from_file use
    saved,              \* history: self.documents at the last successful save
    nextId,             \* number of uuid4() ids handed out so far
    last,               \* the last store call: its arguments and its outcome
    fquery,             \* _filter_by_metadata alone: [docs, pred, out, done]
    endpoints,          \* AlpinaRAGSystem.config["endpoints"]
    rag_modes,          \* SystemConfigurationManager.current_config["rag_modes"]
    saved_config,       \* the "rag_modes" of config/system_config.json
    response,           \* outcome of the last request to the RAG system
    threads,            \* request threads inside a store method: position and locals
    call                \* a pure function alone: its arguments and its result

fileVars == <<file, saved>>
storeVars == <<documents, document_ids, embeddings_matrix, file, saved, nextId, last,
              threads>>
ragVars == <<endpoints, rag_modes, saved_config, response>>
vars == <<documents, document_ids, embeddings_matrix, file, saved, nextId, last,
          fquery, endpoints, rag_modes, saved_config, response, threads, call>>

\* ------------------------------------------------------- ordered dictionary
EmptyDict == [k \in {} |-> 0]

\* dict.update: base overwritten by upd
DictUpdate(base, upd) ==
    [k \in (DOMAIN base) \cup (DOMAIN upd) |->
        IF k \in DOMAIN upd THEN upd[k] ELSE base[k]]

\* doc_id in self.documents
HasKey(d, k) == \E i \in 1..Len(d) : d[i].key = k

KeyIndex(d, k) == CHOOSE i \in 1..Len(d) : d[i].key = k

\* self.documents[k] = v: in place for a known key, appended for a new one
SetItem(d, k, v) ==
    IF HasKey(d, k)
    THEN [d EXCEPT ![KeyIndex(d, k)] = [key |-> k, doc |-> v]]
    ELSE Append(d, [key |-> k, doc |-> v])

\* del self.documents[k]
DelItem(d, k) == RemoveAt(d, KeyIndex(d, k))

\* list.remove(x): drops the first occurrence
ListRemove(l, x) == RemoveAt(l, CHOOSE i \in 1..Len(l) :
                                  l[i] = x /\ \A j \in 1..(i - 1) : l[j] # x)

\* ----------------------------------------------------------- DocumentChunk
ChunkFields == {"id", "content", "embedding", "metadata", "created_at"}

DocumentChunk(id, content, embedding, metadata, created_at) ==
    [id |-> id, content |-> content, embedding |-> embedding,
     metadata |-> metadata, created_at |-> created_at]

\* asdict(self)
to_dict(chunk) == [f \in ChunkFields |-> chunk[f]]

\* cls(**data): TypeError unless data names exactly the five fields
from_dict(data) ==
    IF DOMAIN data = ChunkFields
    THEN [raised |-> FALSE,
          chunk |-> DocumentChunk(data["id"], data["content"], data["embedding"],
                                  data["metadata"], data["created_at"])]
    ELSE [raised |-> TRUE, chunk |-> DocumentChunk(0, "", <<>>, EmptyDict, 0)]

\* ------------------------------------------------------ metadata enrichment
\* the study_types table of _detect_study_type, in declaration order
StudyTypes == <<
    [type |-> "brand_health", keywords |-> {"brand health", "tracking", "salud marca"}],
    [type |-> "communication_test",
     keywords |-> {"communication", "comunicación", "advertising", "publicitario"}],
    [type |-> "concept_test", keywords |-> {"concept", "concepto", "evaluación concepto"}],
    [type |-> "pack_test", keywords |-> {"pack", "empaque", "packaging"}],
    [type |-> "usage_attitudes", keywords |-> {"usage", "uso", "attitudes", "actitudes"}],
    [type |-> "segmentation", keywords |-> {"segmentation", "segmentación"}],
    [type |-> "pricing", keywords |-> {"pricing", "precio", "price"}],
    [type |-> "product_test", keywords |-> {"product", "producto"}],
    [type |-> "maxdiff", keywords |-> {"maxdiff", "max diff"}],
    [type |-> "conjoint", keywords |-> {"conjoint", "trade-off"}] >>

\* the keywords of the table that occur in document_name.lower()
KeywordsIn(document_name) ==
    CASE document_name = "Pack Concept 2020" -> {"pack", "concept"}
      [] document_name = "Tracking Precio" -> {"tracking", "precio"}
      [] OTHER -> {}

RECURSIVE DetectFrom_last_match(_, _)
DetectFrom_last_match(found, i) ==
    IF i > Len(StudyTypes) THEN "general_research"
    ELSE LET later == DetectFrom_last_match(found, i + 1)
         IN  IF later # "general_research" THEN later
             ELSE IF StudyTypes[i].keywords \cap found # {} THEN StudyTypes[i].type
             ELSE "general_research"

RECURSIVE DetectFrom(_, _)
DetectFrom(found, i) ==
    IF i > Len(StudyTypes) THEN "general_research"
    ELSE IF StudyTypes[i].keywords \cap found # {} THEN StudyTypes[i].type
    ELSE DetectFrom(found, i + 1)

\* _detect_study_type(document_name): first category with a keyword in the name
_detect_study_type(document_name) == DetectFrom(KeywordsIn(document_name), 1)

\* metadata.get(key, default)
DictGet(d, k, default) == IF k \in DOMAIN d THEN d[k] ELSE default

\* _enrich_metadata(metadata) at time now
_enrich_metadata(metadata, now) ==
    LET base == [k \in {"client", "industry", "language", "processing_date"} |->
                    CASE k = "client" -> "tigo_honduras"
                      [] k = "industry" -> "telecom"
                      [] k = "language" -> "spanish_honduras"
                      [] OTHER -> now]
        e0 == DictUpdate(base, metadata)
        e1 == IF "study_type" \notin DOMAIN e0
              THEN DictUpdate(e0, [k \in {"study_type"} |->
                       _detect_study_type(DictGet(metadata, "document_name", ""))])
              ELSE e0
        e2 == IF "year" \notin DOMAIN e1
              THEN DictUpdate(e1, [k \in {"year"} |-> CurrentYear])
              ELSE e1
    IN  IF "confidence_score" \notin DOMAIN e2
        THEN DictUpdate(e2, [k \in {"confidence_score"} |-> 1])
        ELSE e2

\* ------------------------------------------------------- embeddings matrix
NoMatrix == [none |-> TRUE, rows |-> <<>>]

\* _update_embeddings_matrix() for the dictionary d
_update_embeddings_matrix(d) ==
    IF Len(d) = 0 THEN NoMatrix
    ELSE [none |-> FALSE, rows |-> [i \in 1..Len(d) |-> d[i].doc.embedding]]

\* --------------------------------------------------------- metadata filter
\* a predicate is the dict metadata_filter as its items in order, <<key, value>>;
\* a value is [kind |-> "scalar", v], [kind |-> "list", l] or [kind |-> "dict", d]
Scalar(v) == [kind |-> "scalar", v |-> v]
ListOf(l) == [kind |-> "list", l |-> l]
RangeOf(d) == [kind |-> "dict", d |-> d]

KeyMatch_wildcard(metadata, key, value) ==
    IF key \notin DOMAIN metadata THEN TRUE
    ELSE LET doc_value == metadata[key]
         IN  IF value.kind = "dict"
             THEN /\ ~("gte" \in DOMAIN value.d /\ doc_value < value.d["gte"])
                  /\ ~("lte" \in DOMAIN value.d /\ doc_value > value.d["lte"])
                  /\ ~("in" \in DOMAIN value.d /\ doc_value \notin Range(value.d["in"]))
             ELSE IF value.kind = "list" THEN doc_value \in Range(value.l)
             ELSE doc_value = value.v

KeyMatch_lte_as_gte(metadata, key, value) ==
    IF key \notin DOMAIN metadata THEN FALSE
    ELSE LET doc_value == metadata[key]
         IN  IF value.kind = "dict"
             THEN /\ ~("gte" \in DOMAIN value.d /\ doc_value < value.d["gte"])
                  /\ ~("lte" \in DOMAIN value.d /\ doc_value < value.d["lte"])
                  /\ ~("in" \in DOMAIN value.d /\ doc_value \notin Range(value.d["in"]))
             ELSE IF value.kind = "list" THEN doc_value \in Range(value.l)
             ELSE doc_value = value.v

\* one pass of the inner loop of _filter_by_metadata: FALSE where the code
\* sets match = False and breaks
KeyMatch(metadata, key, value) ==
    IF key \notin DOMAIN metadata THEN FALSE
    ELSE LET doc_value == metadata[key]
         IN  IF value.kind = "dict"
             THEN IF "gte" \in DOMAIN value.d /\ doc_value < value.d["gte"] THEN FALSE
                  ELSE IF "lte" \in DOMAIN value.d /\ doc_value > value.d["lte"] THEN FALSE
                  ELSE IF "in" \in DOMAIN value.d /\ doc_value \notin Range(value.d["in"])
                       THEN FALSE
                  ELSE TRUE
             ELSE IF value.kind = "list"
                  THEN doc_value \in Range(value.l)
             ELSE doc_value = value.v

RECURSIVE MatchFrom(_, _, _)
\* the inner loop over metadata_filter.items() from item i on
MatchFrom(metadata, pred, i) ==
    IF i > Len(pred) THEN TRUE
    ELSE IF ~KeyMatch(metadata, pred[i][1], pred[i][2]) THEN FALSE
    ELSE MatchFrom(metadata, pred, i + 1)

RECURSIVE FilterFrom(_, _, _, _)
\* the outer loop over self.documents.items() from entry i on
FilterFrom(d, pred, i, filtered) ==
    IF i > Len(d) THEN filtered
    ELSE FilterFrom(d, pred, i + 1,
                    IF MatchFrom(d[i].doc.metadata, pred, 1)
                    THEN SetItem(filtered, d[i].key, d[i].doc)
                    ELSE filtered)

\* _filter_by_metadata(metadata_filter) over the dictionary d
_filter_by_metadata(d, pred) == FilterFrom(d, pred, 1, <<>>)

\* --------------------------------------------------------- similarity search
\* what generate_embedding returned: None (ok = FALSE) or a vector
NoEmbedding == [ok |-> FALSE, vec |-> <<>>]
Embedding(v) == [ok |-> TRUE, vec |-> v]

\* metadata_filter: None, or a predicate
NoFilter == [given |-> FALSE, pred |-> <<>>]
Filter(pred) == [given |-> TRUE, pred |-> pred]

RECURSIVE ScanFrom(_, _, _, _, _)
\* the scoring loop over filtered_docs from entry i on; raised when
\* cosine_similarity raises
ScanFrom(filtered, query_embedding, min_similarity, i, results) ==
    IF i > Len(filtered) THEN [raised |-> FALSE, results |-> results]
    ELSE LET doc == filtered[i].doc
             sim == cosine_similarity(query_embedding, doc.embedding)
         IN  IF sim.raised THEN [raised |-> TRUE, results |-> <<>>]
             ELSE ScanFrom(filtered, query_embedding, min_similarity, i + 1,
                           IF ScoreGeq(sim.value, min_similarity)
                           THEN Append(results, [doc |-> doc, score |-> sim.value])
                           ELSE results)

InsertDesc_ties_reversed(sorted, x) ==
    LET ahead == {i \in 1..Len(sorted) : ScoreGt(sorted[i].score, x.score)}
        n == Cardinality(ahead)
    IN  SubSeq(sorted, 1, n) \o <<x>> \o SubSeq(sorted, n + 1, Len(sorted))

\* x placed into a list sorted by non-increasing score, behind every element
\* whose score is at least its own
InsertDesc(sorted, x) ==
    LET ahead == {i \in 1..Len(sorted) : ScoreGeq(sorted[i].score, x.score)}
        n == Cardinality(ahead)
    IN  SubSeq(sorted, 1, n) \o <<x>> \o SubSeq(sorted, n + 1, Len(sorted))

RECURSIVE SortFrom(_, _, _)
SortFrom(results, i, sorted) ==
    IF i > Len(results) THEN sorted
    ELSE SortFrom(results, i + 1, InsertDesc(sorted, results[i]))

\* results.sort(key=lambda x: x[1], reverse=True): stable, equal scores keep
\* their order
SortByScoreDesc(results) == SortFrom(results, 1, <<>>)

\* results[:k]
Slice(results, k) ==
    IF k >= 0 THEN Take(results, k)
    ELSE SubSeq(results, 1, Len(results) + k)

RECURSIVE SimilaritiesFrom(_, _, _, _)
\* the loop of top_k_similar from the i-th candidate on
SimilaritiesFrom(query_vector, vectors, i, similarities) ==
    IF i > Len(vectors) THEN [raised |-> FALSE, similarities |-> similarities]
    ELSE LET sim == cosine_similarity(query_vector, vectors[i].vec)
         IN  IF sim.raised THEN [raised |-> TRUE, similarities |-> <<>>]
             ELSE SimilaritiesFrom(query_vector, vectors, i + 1,
                      Append(similarities, [id |-> vectors[i].id, score |-> sim.value]))

top_k_similar_ties_reversed(query_vector, vectors, k) ==
    LET scored == SimilaritiesFrom(query_vector, vectors, 1, <<>>)
        reversed == [i \in 1..Len(scored.similarities) |->
                        scored.similarities[Len(scored.similarities) + 1 - i]]
    IN  IF scored.raised THEN [raised |-> TRUE, list |-> <<>>]
        ELSE [raised |-> FALSE, list |-> Slice(SortByScoreDesc(reversed), k)]

\* top_k_similar(query_vector, vectors, k): the (id, score) pairs sorted by
\* score, highest first, and cut to k
top_k_similar(query_vector, vectors, k) ==
    LET scored == SimilaritiesFrom(query_vector, vectors, 1, <<>>)
    IN  IF scored.raised THEN [raised |-> TRUE, list |-> <<>>]
        ELSE [raised |-> FALSE, list |-> Slice(SortByScoreDesc(scored.similarities), k)]

similarity_search_unfiltered(d, query_embedding, k, metadata_filter, min_similarity) ==
    IF ~query_embedding.ok \/ Len(query_embedding.vec) = 0 THEN <<>>
    ELSE IF Len(d) = 0 THEN <<>>
    ELSE LET scan == ScanFrom(d, query_embedding.vec, min_similarity, 1, <<>>)
         IN  IF scan.raised THEN <<>>
             ELSE Slice(SortByScoreDesc(scan.results), k)

\* similarity_search(query, k, metadata_filter, min_similarity) over the
\* dictionary d, query_embedding being what generate_embedding(query) returned
similarity_search(d, query_embedding, k, metadata_filter, min_similarity) ==
    IF ~query_embedding.ok \/ Len(query_embedding.vec) = 0 THEN <<>>
    ELSE LET filtered_docs ==
                 IF metadata_filter.given /\ Len(metadata_filter.pred) > 0
                 THEN _filter_by_metadata(d, metadata_filter.pred)
                 ELSE d
         IN  IF Len(filtered_docs) = 0 THEN <<>>
             ELSE LET scan == ScanFrom(filtered_docs, query_embedding.vec,
                                       min_similarity, 1, <<>>)
                  IN  IF scan.raised THEN <<>>
                      ELSE Slice(SortByScoreDesc(scan.results), k)

\* --------------------------------------------------------- snapshot file
NoFile == [exists |-> FALSE, valid_json |-> FALSE, has_documents |-> FALSE,
           documents |-> <<>>,
           metadata |-> [created_at |-> 0, total_documents |-> 0, client |-> ""]]

\* the JSON text save_to_file writes for the dictionary d at time now: the
\* items of "documents" in dictionary order, and the "metadata" header
Snapshot(d, now) ==
    [exists |-> TRUE, valid_json |-> TRUE, has_documents |-> TRUE,
     documents |-> [i \in 1..Len(d) |-> <<d[i].key, to_dict(d[i].doc)>>],
     metadata |-> [created_at |-> now, total_documents |-> Len(d),
                   client |-> "tigo_honduras"]]

RECURSIVE LoadFrom(_, _, _, _)
\* the loop of load_from_file over data["documents"].items() from item i on
LoadFrom(items, i, d, ids) ==
    IF i > Len(items) THEN [raised |-> FALSE, documents |-> d, document_ids |-> ids]
    ELSE LET parsed == from_dict(items[i][2])
         IN  IF parsed.raised
             THEN [raised |-> TRUE, documents |-> d, document_ids |-> ids]
             ELSE LoadFrom(items, i + 1, SetItem(d, items[i][1], parsed.chunk),
                           Append(ids, items[i][1]))

\* ------------------------------------------------------------ input domains
\* (content, metadata) pairs handed to add_document
AddInputs ==
    { [content |-> "c1", metadata |-> EmptyDict],
      [content |-> "c2",
       metadata |-> [k \in {"year", "file_size_bytes", "document_name"} |->
                        CASE k = "year" -> 2022
                          [] k = "file_size_bytes" -> 10
                          [] OTHER -> "Pack Concept 2020"]] }

\* what the embedding provider may answer for a document
DocEmbeddings ==
    { Embedding(<<1, 0>>), Embedding(<<0, 1>>), Embedding(<<1, 0, 0>>),
      Embedding(<<>>), NoEmbedding }

\* what the embedding provider may answer for a query
QueryEmbeddings ==
    { Embedding(<<1, 1>>), Embedding(<<-1, 1>>), Embedding(<<1, 0, 0>>),
      NoEmbedding }

Ks == {0, 1, MaxK}

Filters ==
    { NoFilter,
      Filter(<<>>),
      Filter(<< <<"file_size_bytes", Scalar(10)>> >>) }

\* the two defaults of the call sites: 0.0 and 0.7 (0.49 as a signed square)
MinSimilarities == { Frac(0, 1), Frac(49, 100) }

\* the narrower domains used together with save and load
PersistDocEmbeddings == { Embedding(<<1, 0>>), Embedding(<<0, 1>>), NoEmbedding }

PersistQueryEmbeddings == { Embedding(<<1, 1>>), Embedding(<<1, 0>>) }

PersistFilters ==
    { NoFilter, Filter(<< <<"year", RangeOf([b \in {"gte"} |-> 2023])>> >>) }

\* files load_from_file may be pointed at that save_to_file did not write:
\* an entry of "documents" as written for a chunk, and one lacking a field
FileEntry(id, embedding) ==
    <<id, to_dict(DocumentChunk(id, "c1", embedding, EmptyDict, 0))>>

MalformedEntry(id) ==
    <<id, [f \in ChunkFields \ {"embedding"} |->
              to_dict(DocumentChunk(id, "c1", <<>>, EmptyDict, 0))[f]]>>

FileWith(items) ==
    [exists |-> TRUE, valid_json |-> TRUE, has_documents |-> TRUE,
     documents |-> items,
     metadata |-> [created_at |-> 0, total_documents |-> Len(items),
                   client |-> "tigo_honduras"]]

\* ids of the chunks a file written elsewhere carries
FileIds == {11, 12}

LoadFiles ==
    { NoFile,
      [NoFile EXCEPT !.exists = TRUE],
      [NoFile EXCEPT !.exists = TRUE, !.valid_json = TRUE],
      FileWith(<<>>),
      FileWith(<< FileEntry(11, <<0, 1>>) >>),
      FileWith(<< FileEntry(11, <<0, 1>>), MalformedEntry(12) >>),
      FileWith(<< MalformedEntry(11) >>) }

\* ----------------------------------------------------------------- actions
\* the record of a call that is not a search
Outcome(op, id, ok, raised) ==
    [op |-> op, id |-> id, ok |-> ok, raised |-> raised, results |-> <<>>,
     q |-> NoEmbedding, k |-> 0, filter |-> NoFilter, min_similarity |-> Frac(0, 1)]

AddDocument_id_from_content(input, embedding) ==
    /\ IF ~embedding.ok \/ Len(embedding.vec) = 0
       THEN /\ last' = Outcome("add", 0, FALSE, TRUE)
            /\ UNCHANGED <<documents, document_ids, embeddings_matrix, nextId>>
       ELSE /\ nextId < MaxAdds
            /\ LET now == nextId + 1
                   chunk_id == IF input.content = "c1" THEN 1 ELSE 2
                   chunk == DocumentChunk(chunk_id, input.content, embedding.vec,
                                          _enrich_metadata(input.metadata, now), now)
               IN  /\ documents' = SetItem(documents, chunk_id, chunk)
                   /\ document_ids' = Append(document_ids, chunk_id)
                   /\ embeddings_matrix' = _update_embeddings_matrix(documents')
                   /\ nextId' = nextId + 1
                   /\ last' = Outcome("add", chunk_id, TRUE, FALSE)
    /\ UNCHANGED <<fileVars, threads, fquery, call, ragVars>>

AddDocument_stores_before_check(input, embedding) ==
    /\ nextId < MaxAdds
    /\ LET now == nextId + 1
           chunk_id == nextId + 1
           chunk == DocumentChunk(chunk_id, input.content, embedding.vec,
                                  _enrich_metadata(input.metadata, now), now)
       IN  /\ documents' = SetItem(documents, chunk_id, chunk)
           /\ document_ids' = Append(document_ids, chunk_id)
           /\ embeddings_matrix' = _update_embeddings_matrix(documents')
           /\ nextId' = nextId + 1
           /\ last' = IF ~embedding.ok \/ Len(embedding.vec) = 0
                      THEN Outcome("add", 0, FALSE, TRUE)
                      ELSE Outcome("add", chunk_id, TRUE, FALSE)
    /\ UNCHANGED <<fileVars, threads, fquery, call, ragVars>>

\* add_document(content, metadata), embedding being what generate_embedding
\* returned; ids and timestamps are the count of chunks created
AddDocument(input, embedding) ==
    /\ IF ~embedding.ok \/ Len(embedding.vec) = 0
       THEN /\ last' = Outcome("add", 0, FALSE, TRUE)
            /\ UNCHANGED <<documents, document_ids, embeddings_matrix, nextId>>
       ELSE /\ nextId < MaxAdds
            /\ LET now == nextId + 1
                   chunk_id == nextId + 1
                   chunk == DocumentChunk(chunk_id, input.content, embedding.vec,
                                          _enrich_metadata(input.metadata, now), now)
               IN  /\ documents' = SetItem(documents, chunk_id, chunk)
                   /\ document_ids' = Append(document_ids, chunk_id)
                   /\ embeddings_matrix' = _update_embeddings_matrix(documents')
                   /\ nextId' = nextId + 1
                   /\ last' = Outcome("add", chunk_id, TRUE, FALSE)
    /\ UNCHANGED <<fileVars, threads, fquery, call, ragVars>>

delete_document_keeps_entry(d, ids, matrix, doc_id) ==
    IF HasKey(d, doc_id)
    THEN [ret |-> TRUE, documents |-> d,
          document_ids |-> IF doc_id \in Range(ids) THEN ListRemove(ids, doc_id) ELSE ids,
          embeddings_matrix |-> _update_embeddings_matrix(d)]
    ELSE [ret |-> FALSE, documents |-> d, document_ids |-> ids,
          embeddings_matrix |-> matrix]

\* delete_document(doc_id) on the store <<d, ids, matrix>>: the value
\* returned and the store left behind
delete_document(d, ids, matrix, doc_id) ==
    IF HasKey(d, doc_id)
    THEN LET left == DelItem(d, doc_id)
         IN  [ret |-> TRUE, documents |-> left,
              document_ids |-> IF doc_id \in Range(ids)
                               THEN ListRemove(ids, doc_id) ELSE ids,
              embeddings_matrix |-> _update_embeddings_matrix(left)]
    ELSE [ret |-> FALSE, documents |-> d, document_ids |-> ids,
          embeddings_matrix |-> matrix]

DeleteDocument(doc_id) ==
    /\ LET r == delete_document(documents, document_ids, embeddings_matrix, doc_id)
       IN  /\ documents' = r.documents
           /\ document_ids' = r.document_ids
           /\ embeddings_matrix' = r.embeddings_matrix
           /\ last' = Outcome("delete", doc_id, r.ret, FALSE)
    /\ UNCHANGED <<fileVars, nextId, threads, fquery, call, ragVars>>

ClearAll_keeps_matrix ==
    /\ documents' = <<>>
    /\ document_ids' = <<>>
    /\ embeddings_matrix' = embeddings_matrix
    /\ last' = Outcome("clear", 0, TRUE, FALSE)
    /\ UNCHANGED <<fileVars, nextId, threads, fquery, call, ragVars>>

\* clear_all()
ClearAll ==
    /\ documents' = <<>>
    /\ document_ids' = <<>>
    /\ embeddings_matrix' = NoMatrix
    /\ last' = Outcome("clear", 0, TRUE, FALSE)
    /\ UNCHANGED <<fileVars, nextId, threads, fquery, call, ragVars>>

\* similarity_search(query, k, metadata_filter, min_similarity)
SimilaritySearch(query_embedding, k, metadata_filter, min_similarity) ==
    /\ last' = [op |-> "search", id |-> 0, ok |-> TRUE, raised |-> FALSE,
                results |-> similarity_search(documents, query_embedding, k,
                                              metadata_filter, min_similarity),
                q |-> query_embedding, k |-> k, filter |-> metadata_filter,
                min_similarity |-> min_similarity]
    /\ UNCHANGED <<documents, document_ids, embeddings_matrix, fileVars, nextId,
                   threads, fquery, call, ragVars>>

save_to_file_by_ids(d, now) ==
    [exists |-> TRUE, valid_json |-> TRUE, has_documents |-> TRUE,
     documents |-> [i \in 1..Len(d) |->
                      <<d[Len(d) + 1 - i].key, to_dict(d[Len(d) + 1 - i].doc)>>],
     metadata |-> [created_at |-> now, total_documents |-> Len(d),
                   client |-> "tigo_honduras"]]

\* the file save_to_file(filepath) leaves when the write succeeds
save_to_file(d, now) == Snapshot(d, now)

\* save_to_file(filepath); io_ok = FALSE when open() fails
SaveToFile(io_ok) ==
    /\ IF io_ok
       THEN /\ file' = save_to_file(documents, nextId)
            /\ saved' = documents
            /\ last' = Outcome("save", 0, TRUE, FALSE)
       ELSE /\ UNCHANGED fileVars
            /\ last' = Outcome("save", 0, FALSE, FALSE)
    /\ UNCHANGED <<documents, document_ids, embeddings_matrix, nextId,
                   threads, fquery, call, ragVars>>

\* load_from_file(filepath) on the store <<d, ids, matrix>> reading f: the
\* value returned and the store left behind
load_from_file(d, ids, matrix, f) ==
    IF ~f.exists \/ ~f.valid_json
    THEN [ret |-> FALSE, documents |-> d, document_ids |-> ids,
          embeddings_matrix |-> matrix]
    ELSE IF ~f.has_documents
    THEN [ret |-> FALSE, documents |-> <<>>, document_ids |-> <<>>,
          embeddings_matrix |-> matrix]
    ELSE LET loaded == LoadFrom(f.documents, 1, <<>>, <<>>)
         IN  IF loaded.raised
             THEN [ret |-> FALSE, documents |-> loaded.documents,
                   document_ids |-> loaded.document_ids,
                   embeddings_matrix |-> matrix]
             ELSE [ret |-> TRUE, documents |-> loaded.documents,
                   document_ids |-> loaded.document_ids,
                   embeddings_matrix |-> _update_embeddings_matrix(loaded.documents)]

LoadFromFile ==
    /\ LET r == load_from_file(documents, document_ids, embeddings_matrix, file)
       IN  /\ documents' = r.documents
           /\ document_ids' = r.document_ids
           /\ embeddings_matrix' = r.embeddings_matrix
           /\ last' = Outcome("load", 0, r.ret, FALSE)
    /\ UNCHANGED <<fileVars, nextId, threads, fquery, call, ragVars>>

\* ------------------------------------------ _filter_by_metadata on its own
NoQuery == [docs |-> <<>>, pred |-> <<>>, out |-> <<>>, done |-> FALSE]

\* metadata of the chunks the filter is tried on
FilterMetas ==
    { [k \in {"year"} |-> 2020],
      [k \in {"year"} |-> 2024],
      [k \in {"year", "file_size_bytes"} |-> IF k = "year" THEN 2022 ELSE 10],
      [k \in {"file_size_bytes"} |-> 10] }

FilterChunk(id, metadata) ==
    [key |-> id, doc |-> DocumentChunk(id, "c", <<1, 0>>, metadata, 0)]

\* dictionaries of at most MaxFilterDocs chunks
MaxFilterDocs == 2

FilterStores ==
    UNION { { [i \in 1..n |-> FilterChunk(i, ms[i])] : ms \in [1..n -> FilterMetas] }
            : n \in 0..MaxFilterDocs }

Predicates ==
    { <<>>,
      << <<"year", Scalar(2022)>> >>,
      << <<"year", ListOf(<<2020, 2024>>)>> >>,
      << <<"year", ListOf(<<>>)>> >>,
      << <<"year", RangeOf([b \in {"gte"} |-> 2022])>> >>,
      << <<"year", RangeOf([b \in {"lte"} |-> 2022])>> >>,
      << <<"year", RangeOf([b \in {"gte", "lte"} |-> IF b = "gte" THEN 2021 ELSE 2023])>> >>,
      << <<"year", RangeOf([b \in {"in"} |-> <<2020, 2022>>])>> >>,
      << <<"year", RangeOf(EmptyDict)>> >>,
      << <<"year", RangeOf([b \in {"gt"} |-> 2030])>> >>,
      << <<"file_size_bytes", Scalar(10)>> >>,
      << <<"file_size_bytes", ListOf(<<10, 20>>)>> >>,
      << <<"file_size_bytes", RangeOf([b \in {"gte"} |-> 5])>> >>,
      << <<"file_size_bytes", RangeOf(EmptyDict)>> >>,
      << <<"year", RangeOf([b \in {"gte"} |-> 2022])>>,
         <<"file_size_bytes", Scalar(10)>> >>,
      << <<"file_size_bytes", ListOf(<<10>>)>>, <<"year", Scalar(2024)>> >> }

\* _filter_by_metadata(pred) is called on the dictionary fquery.docs
ApplyFilter ==
    /\ ~fquery.done
    /\ fquery' = [fquery EXCEPT !.out = _filter_by_metadata(fquery.docs, fquery.pred),
                                !.done = TRUE]
    /\ UNCHANGED <<storeVars, call, ragVars>>

\* ------------------------------------------------- RAG modes and endpoints
Modes == {"pure", "creative", "hybrid"}

\* a system prompt: whether it still carries {rag_percentage}-style
\* placeholders, and the percentages written into it once formatted
Template == [placeholders |-> TRUE, rag |-> 0, creativity |-> 0, llm |-> 0]
PlainPrompt == [placeholders |-> FALSE, rag |-> 0, creativity |-> 0, llm |-> 0]

\* _get_default_rag_modes()
DefaultRagModes ==
    [m \in Modes |->
        CASE m = "pure" ->
               [default_rag_percentage |-> 100, min_rag_percentage |-> 90,
                max_rag_percentage |-> 100, max_context_chunks |-> 5,
                system_prompt |-> PlainPrompt]
          [] m = "creative" ->
               [default_rag_percentage |-> 60, min_rag_percentage |-> 30,
                max_rag_percentage |-> 80, max_context_chunks |-> 5,
                system_prompt |-> Template]
          [] OTHER ->
               [default_rag_percentage |-> 70, min_rag_percentage |-> 10,
                max_rag_percentage |-> 100, max_context_chunks |-> 7,
                system_prompt |-> Template]]

\* the "endpoints" of AlpinaRAGSystem._load_config
DefaultEndpoints ==
    [m \in Modes |->
        CASE m = "pure" -> [rag_percentage |-> 100, max_context_chunks |-> 5]
          [] m = "creative" -> [rag_percentage |-> 60, max_context_chunks |-> 3]
          [] OTHER -> [rag_percentage |-> 80, max_context_chunks |-> 4]]

\* query_data.rag_percentage: None or an integer
NoOverride == [given |-> FALSE, value |-> 0]
Override(p) == [given |-> TRUE, value |-> p]

Overrides == { NoOverride, Override(5), Override(50), Override(150) }

NoResponse == [op |-> "none", mode |-> "", override |-> NoOverride, status |-> 0,
               rag_percentage |-> 0, ok |-> FALSE, raised |-> FALSE,
               kwargs |-> EmptyDict, ranked |-> 0, max_context_chunks |-> 0,
               citations |-> <<>>, chunks_retrieved |-> 0]

\* AzureSearchVectorStore.similarity_search(query, k, ...) against an index
\* that ranks `ranked` documents for the query: the service answers the
\* request's "top": k with the k best, named here by their rank, and every
\* score passes min_similarity = 0.0
MaxRanked == 6

azure_similarity_search(ranked, k) == [i \in 1..Min2(ranked, k) |-> i]

ProcessQuery_override_any_mode(mode, override, searchable, ranked) ==
    /\ IF ~searchable
       THEN /\ endpoints' = endpoints
            /\ response' = [NoResponse EXCEPT !.op = "query", !.mode = mode,
                                              !.override = override, !.status = 400,
                                              !.raised = TRUE]
       ELSE LET search_results ==
                    azure_similarity_search(ranked, endpoints[mode].max_context_chunks)
            IN  /\ endpoints' =
                     IF override.given
                     THEN [endpoints EXCEPT ![mode].rag_percentage = override.value]
                     ELSE endpoints
                /\ response' = [NoResponse EXCEPT
                                   !.op = "query", !.mode = mode, !.override = override,
                                   !.status = 200, !.ok = TRUE,
                                   !.rag_percentage = endpoints'[mode].rag_percentage,
                                   !.ranked = ranked,
                                   !.max_context_chunks = endpoints'[mode].max_context_chunks,
                                   !.citations = search_results,
                                   !.chunks_retrieved = Len(search_results)]
    /\ UNCHANGED <<storeVars, fquery, call, rag_modes, saved_config>>

\* process_multimodal_query(query_data, mode): steps 4, 5, 6 and 10;
\* searchable is FALSE when the request carries no text to search for, ranked
\* is the number of documents the index ranks for the query
ProcessQuery(mode, override, searchable, ranked) ==
    /\ IF ~searchable
       THEN /\ endpoints' = endpoints
            /\ response' = [NoResponse EXCEPT !.op = "query", !.mode = mode,
                                              !.override = override, !.status = 400,
                                              !.raised = TRUE]
       ELSE LET search_results ==
                    azure_similarity_search(ranked, endpoints[mode].max_context_chunks)
            IN  /\ endpoints' =
                     IF mode = "hybrid" /\ override.given
                     THEN [endpoints EXCEPT ![mode].rag_percentage = override.value]
                     ELSE endpoints
                /\ response' = [NoResponse EXCEPT
                                   !.op = "query", !.mode = mode, !.override = override,
                                   !.status = 200, !.ok = TRUE,
                                   !.rag_percentage = endpoints'[mode].rag_percentage,
                                   !.ranked = ranked,
                                   !.max_context_chunks = endpoints'[mode].max_context_chunks,
                                   !.citations = search_results,
                                   !.chunks_retrieved = Len(search_results)]
    /\ UNCHANGED <<storeVars, fquery, call, rag_modes, saved_config>>

\* _update_system_prompt_with_percentage: str.format fills the placeholders
\* that are still in the prompt
FormatPrompt(prompt, rag_percentage) ==
    IF prompt.placeholders
    THEN [placeholders |-> FALSE, rag |-> rag_percentage,
          creativity |-> 100 - rag_percentage, llm |-> 100 - rag_percentage]
    ELSE prompt

\* the keyword arguments of update_rag_mode_config
UpdateKwargs ==
    { [k \in {"rag_percentage"} |-> 50],
      [k \in {"rag_percentage"} |-> 150],
      [k \in {"default_rag_percentage"} |-> 50],
      [k \in {"default_rag_percentage"} |-> 150] }

\* the fields of a mode that the loop over kwargs assigns
StoredKwargs(mode_config, kwargs) ==
    [f \in DOMAIN mode_config |-> IF f \in DOMAIN kwargs THEN kwargs[f] ELSE mode_config[f]]

\* the bounds test of update_rag_mode_config: TRUE when the call raises
OutOfBounds(mode_config, kwargs) ==
    /\ "rag_percentage" \in DOMAIN kwargs
    /\ ~(/\ mode_config.min_rag_percentage <= kwargs["rag_percentage"]
         /\ kwargs["rag_percentage"] <= mode_config.max_rag_percentage)

update_rag_mode_config_validates_last(config, disk, mode, kwargs) ==
    IF mode \notin DOMAIN config
    THEN [ret |-> FALSE, raised |-> FALSE, rag_modes |-> config, saved_config |-> disk]
    ELSE LET stored == StoredKwargs(config[mode], kwargs)
             after == [config EXCEPT ![mode] = stored]
         IN  IF OutOfBounds(config[mode], kwargs)
             THEN [ret |-> FALSE, raised |-> TRUE, rag_modes |-> after,
                   saved_config |-> disk]
             ELSE [ret |-> TRUE, raised |-> FALSE, rag_modes |-> after,
                   saved_config |-> after]

\* update_rag_mode_config(mode, **kwargs) on the configuration config whose
\* file holds disk: the value returned, whether ValueError was raised, and
\* the configuration and the file left behind
update_rag_mode_config(config, disk, mode, kwargs) ==
    IF mode \notin DOMAIN config
    THEN [ret |-> FALSE, raised |-> FALSE, rag_modes |-> config, saved_config |-> disk]
    ELSE IF OutOfBounds(config[mode], kwargs)
    THEN [ret |-> FALSE, raised |-> TRUE, rag_modes |-> config, saved_config |-> disk]
    ELSE LET stored == StoredKwargs(config[mode], kwargs)
             updated == IF "rag_percentage" \in DOMAIN kwargs
                        THEN [stored EXCEPT !.system_prompt =
                                 FormatPrompt(stored.system_prompt, kwargs["rag_percentage"])]
                        ELSE stored
             after == [config EXCEPT ![mode] = updated]
         IN  [ret |-> TRUE, raised |-> FALSE, rag_modes |-> after, saved_config |-> after]

\* a call of update_rag_mode_config(mode, **kwargs)
UpdateRagModeConfig(mode, kwargs) ==
    /\ LET r == update_rag_mode_config(rag_modes, saved_config, mode, kwargs)
       IN  /\ rag_modes' = r.rag_modes
           /\ saved_config' = r.saved_config
           /\ response' = [NoResponse EXCEPT !.op = "update", !.mode = mode,
                                             !.kwargs = kwargs, !.ok = r.ret,
                                             !.raised = r.raised]
    /\ UNCHANGED <<storeVars, fquery, call, endpoints>>

\* the presets of apply_configuration_preset: default_rag_percentage per mode
Presets ==
    [n \in {"conservative", "balanced", "creative"} |->
        CASE n = "conservative" -> [m \in Modes |->
                 CASE m = "pure" -> 100 [] m = "creative" -> 80 [] OTHER -> 85]
          [] n = "balanced" -> [m \in Modes |->
                 CASE m = "pure" -> 100 [] m = "creative" -> 60 [] OTHER -> 70]
          [] OTHER -> [m \in Modes |->
                 CASE m = "pure" -> 90 [] m = "creative" -> 40 [] OTHER -> 50]]

PresetOrder == <<"pure", "creative", "hybrid">>

\* the loop of apply_configuration_preset from the i-th mode on: one
\* update_rag_mode_config(mode, default_rag_percentage=value) per mode
RECURSIVE ApplyFrom(_, _, _, _)
ApplyFrom(config, disk, preset, i) ==
    IF i > Len(PresetOrder)
    THEN [rag_modes |-> config, saved_config |-> disk]
    ELSE LET mode == PresetOrder[i]
             r == update_rag_mode_config(config, disk, mode,
                      [k \in {"default_rag_percentage"} |-> preset[mode]])
         IN  ApplyFrom(r.rag_modes, r.saved_config, preset, i + 1)

\* apply_configuration_preset(preset_name)
ApplyConfigurationPreset(preset_name) ==
    /\ IF preset_name \notin DOMAIN Presets
       THEN /\ UNCHANGED <<rag_modes, saved_config>>
            /\ response' = [NoResponse EXCEPT !.op = "preset", !.mode = preset_name]
       ELSE LET r == ApplyFrom(rag_modes, saved_config, Presets[preset_name], 1)
            IN  /\ rag_modes' = r.rag_modes
                /\ saved_config' = r.saved_config
                /\ response' = [NoResponse EXCEPT !.op = "preset", !.mode = preset_name,
                                                  !.ok = TRUE]
    /\ UNCHANGED <<storeVars, fquery, call, endpoints>>

\* config_data of import_configuration: without a "configuration" key, the
\* exported defaults, and a backup whose hybrid default lies below its minimum
NoConfiguration == [present |-> FALSE, rag_modes |-> DefaultRagModes]

ImportData ==
    { NoConfiguration,
      [present |-> TRUE, rag_modes |-> DefaultRagModes],
      [present |-> TRUE,
       rag_modes |-> [DefaultRagModes EXCEPT !["hybrid"].default_rag_percentage = 5]] }

\* import_configuration(config_data)
ImportConfiguration(config_data) ==
    /\ IF config_data.present
       THEN /\ rag_modes' = config_data.rag_modes
            /\ saved_config' = rag_modes'
            /\ response' = [NoResponse EXCEPT !.op = "import", !.ok = TRUE]
       ELSE /\ UNCHANGED <<rag_modes, saved_config>>
            /\ response' = [NoResponse EXCEPT !.op = "import"]
    /\ UNCHANGED <<storeVars, fquery, call, endpoints>>

\* get_rag_mode_config(mode): the stored fields of the mode, or None
get_rag_mode_config(config, mode) ==
    IF mode \in DOMAIN config
    THEN [none |-> FALSE, config |-> config[mode]]
    ELSE [none |-> TRUE, config |-> DefaultRagModes["pure"]]

\* get_configurable_parameters(): the rag_percentage slider of every mode
get_configurable_parameters(config) ==
    [m \in DOMAIN config |->
        [min |-> config[m].min_rag_percentage,
         max |-> config[m].max_rag_percentage,
         current |-> config[m].default_rag_percentage]]

\* the keyword arguments of the administrative calls: one or several keys
ConfigKwargs ==
    UpdateKwargs \cup
    { [k \in {"rag_percentage", "default_rag_percentage"} |->
          IF k = "rag_percentage" THEN 150 ELSE 50],
      [k \in {"rag_percentage", "max_context_chunks"} |->
          IF k = "rag_percentage" THEN 95 ELSE 9],
      [k \in {"default_rag_percentage"} |-> 5] }

\* ------------------------------------------------- concurrent callers
\* The store methods take no lock. A request thread inside add_document,
\* delete_document or similarity_search is preempted between statements, so
\* each statement that reads or writes the shared fields is one step.
Threads == {"t1", "t2"}

NoChunk == DocumentChunk(0, "", <<>>, EmptyDict, 0)

NoReturn == [op |-> "none", ok |-> FALSE, swallowed |-> FALSE, results |-> <<>>]

IdleThread ==
    [pc |-> "idle", chunk |-> NoChunk, doc_id |-> 0, q |-> <<>>, k |-> 0,
     size |-> 0, lastKey |-> 0, results |-> <<>>, stores |-> {}, ret |-> NoReturn]

Return(t, op, ok, swallowed, results) ==
    [IdleThread EXCEPT !.ret = [op |-> op, ok |-> ok, swallowed |-> swallowed,
                                results |-> results],
                       !.stores = threads[t].stores,
                       !.q = threads[t].q, !.k = threads[t].k]

\* history: every value of self.documents that existed while a thread was
\* inside similarity_search
Observe(ths, d) ==
    [u \in Threads |->
        IF ths[u].pc \in {"search_iter", "search_loop"}
        THEN [ths[u] EXCEPT !.stores = @ \cup {d}]
        ELSE ths[u]]

ThreadDocEmbeddings == { <<1, 0>>, <<0, 1>> }
ThreadQueryEmbeddings == { <<1, 1>> }

\* add_document up to the construction of the chunk (lines 95-110)
TAddCreate(t, embedding) ==
    /\ threads[t].pc = "idle"
    /\ nextId < MaxAdds
    /\ LET now == nextId + 1
           chunk == DocumentChunk(nextId + 1, "c1", embedding,
                                  _enrich_metadata(EmptyDict, now), now)
       IN  threads' = [threads EXCEPT ![t] = [IdleThread EXCEPT !.pc = "add_store",
                                                                !.chunk = chunk]]
    /\ nextId' = nextId + 1
    /\ UNCHANGED <<documents, document_ids, embeddings_matrix, fileVars, last,
                   fquery, call, ragVars>>

\* self.documents[chunk_id] = chunk (line 113)
TAddStore(t) ==
    /\ threads[t].pc = "add_store"
    /\ documents' = SetItem(documents, threads[t].chunk.id, threads[t].chunk)
    /\ threads' = Observe([threads EXCEPT ![t].pc = "add_ids"], documents')
    /\ UNCHANGED <<document_ids, embeddings_matrix, fileVars, nextId, last,
                   fquery, call, ragVars>>

\* self.document_ids.append(chunk_id) (line 114)
TAddIds(t) ==
    /\ threads[t].pc = "add_ids"
    /\ document_ids' = Append(document_ids, threads[t].chunk.id)
    /\ threads' = [threads EXCEPT ![t].pc = "add_matrix"]
    /\ UNCHANGED <<documents, embeddings_matrix, fileVars, nextId, last,
                   fquery, call, ragVars>>

\* self._update_embeddings_matrix() and the return (lines 117-123)
TAddMatrix(t) ==
    /\ threads[t].pc = "add_matrix"
    /\ embeddings_matrix' = _update_embeddings_matrix(documents)
    /\ threads' = [threads EXCEPT ![t] = Return(t, "add", TRUE, FALSE, <<>>)]
    /\ UNCHANGED <<documents, document_ids, fileVars, nextId, last, fquery, call, ragVars>>

\* delete_document: if doc_id in self.documents (line 299)
TDeleteTest(t, doc_id) ==
    /\ threads[t].pc = "idle"
    /\ threads' = [threads EXCEPT ![t] =
                      IF HasKey(documents, doc_id)
                      THEN [IdleThread EXCEPT !.pc = "del_dict", !.doc_id = doc_id]
                      ELSE Return(t, "delete", FALSE, FALSE, <<>>)]
    /\ UNCHANGED <<documents, document_ids, embeddings_matrix, fileVars, nextId,
                   last, fquery, call, ragVars>>

\* del self.documents[doc_id] (line 300); KeyError when another thread has
\* deleted it meanwhile, caught at line 307
TDeleteDict(t) ==
    /\ threads[t].pc = "del_dict"
    /\ IF HasKey(documents, threads[t].doc_id)
       THEN /\ documents' = DelItem(documents, threads[t].doc_id)
            /\ threads' = Observe([threads EXCEPT ![t].pc = "del_ids"], documents')
       ELSE /\ documents' = documents
            /\ threads' = [threads EXCEPT ![t] = Return(t, "delete", FALSE, TRUE, <<>>)]
    /\ UNCHANGED <<document_ids, embeddings_matrix, fileVars, nextId, last,
                   fquery, call, ragVars>>

\* if doc_id in self.document_ids: self.document_ids.remove(doc_id)
\* (lines 301-302)
TDeleteIds(t) ==
    /\ threads[t].pc = "del_ids"
    /\ document_ids' = IF threads[t].doc_id \in Range(document_ids)
                       THEN ListRemove(document_ids, threads[t].doc_id)
                       ELSE document_ids
    /\ threads' = [threads EXCEPT ![t].pc = "del_matrix"]
    /\ UNCHANGED <<documents, embeddings_matrix, fileVars, nextId, last,
                   fquery, call, ragVars>>

\* self._update_embeddings_matrix() and return True (lines 303-305)
TDeleteMatrix(t) ==
    /\ threads[t].pc = "del_matrix"
    /\ embeddings_matrix' = _update_embeddings_matrix(documents)
    /\ threads' = [threads EXCEPT ![t] = Return(t, "delete", TRUE, FALSE, <<>>)]
    /\ UNCHANGED <<documents, document_ids, fileVars, nextId, last, fquery, call, ragVars>>

\* similarity_search without a filter: filtered_docs = self.documents and
\* the emptiness test (lines 200-204)
TSearchStart(t, q, k) ==
    /\ threads[t].pc = "idle"
    /\ threads' = [threads EXCEPT ![t] =
                      IF Len(documents) = 0
                      THEN [IdleThread EXCEPT
                               !.ret = [op |-> "search", ok |-> TRUE,
                                        swallowed |-> FALSE, results |-> <<>>],
                               !.stores = {documents}, !.q = q, !.k = k]
                      ELSE [IdleThread EXCEPT !.pc = "search_iter", !.q = q, !.k = k,
                                              !.stores = {documents}]]
    /\ UNCHANGED <<documents, document_ids, embeddings_matrix, fileVars, nextId,
                   last, fquery, call, ragVars>>

\* for doc_id, doc in filtered_docs.items(): the iterator is created over
\* the shared dictionary and remembers its size (line 209)
TSearchIter(t) ==
    /\ threads[t].pc = "search_iter"
    /\ threads' = [threads EXCEPT ![t].pc = "search_loop",
                                  ![t].size = Len(documents),
                                  ![t].lastKey = 0]
    /\ UNCHANGED <<documents, document_ids, embeddings_matrix, fileVars, nextId,
                   last, fquery, call, ragVars>>

\* the entries of the dictionary behind the one with key lastKey: keys are
\* handed out in increasing order and the dictionary keeps insertion order
EntriesAfter(d, lastKey) ==
    LET idx == {i \in 1..Len(d) : d[i].key > lastKey}
    IN  IF idx = {} THEN <<>>
        ELSE SubSeq(d, CHOOSE i \in idx : \A j \in idx : i <= j, Len(d))

\* one turn of the loop (lines 209-214): the iterator raises RuntimeError
\* when the dictionary changed size, which line 220 catches and turns
\* into []; after the last entry, the sort and the slice (lines 217-218)
TSearchNext(t) ==
    /\ threads[t].pc = "search_loop"
    /\ LET me == threads[t]
           rest == EntriesAfter(documents, me.lastKey)
       IN  threads' = [threads EXCEPT ![t] =
             IF Len(documents) # me.size
             THEN Return(t, "search", TRUE, TRUE, <<>>)
             ELSE IF Len(rest) = 0
             THEN Return(t, "search", TRUE, FALSE,
                         Slice(SortByScoreDesc(me.results), me.k))
             ELSE LET doc == rest[1].doc
                      sim == cosine_similarity(me.q, doc.embedding)
                  IN  IF sim.raised
                      THEN Return(t, "search", TRUE, TRUE, <<>>)
                      ELSE [me EXCEPT !.lastKey = rest[1].key,
                                      !.results =
                                          IF ScoreGeq(sim.value, Frac(0, 1))
                                          THEN Append(@, [doc |-> doc, score |-> sim.value])
                                          ELSE @]]
    /\ UNCHANGED <<documents, document_ids, embeddings_matrix, fileVars, nextId,
                   last, fquery, call, ragVars>>

\* ------------------------------------------------ pure functions alone
NoCall == [fn |-> "none", done |-> FALSE]

\* the metadata a caller may pass to add_document: every key given or not
EnrichNames == {"Pack Concept 2020", "Tracking Precio", "Informe"}

MetadataOf(keys, document_name) ==
    [k \in keys |->
        CASE k = "study_type" -> "pricing"
          [] k = "year" -> 2020
          [] k = "confidence_score" -> 0
          [] k = "client" -> "alqueria"
          [] OTHER -> document_name]

EnrichMetadatas ==
    { MetadataOf(keys, document_name) :
          keys \in SUBSET {"study_type", "year", "confidence_score", "client",
                           "document_name"},
          document_name \in EnrichNames }

EnrichContents == {"c1", "Tracking Precio"}

\* a call of _enrich_metadata(metadata) from add_document(content, metadata)
Enrich ==
    /\ call.fn = "enrich"
    /\ ~call.done
    /\ call' = [call EXCEPT !.out = _enrich_metadata(call.metadata, call.now),
                            !.done = TRUE]
    /\ UNCHANGED <<storeVars, fquery, ragVars>>

\* the percentages a prompt may be rendered from
Percentages == 0..100

get_system_prompt_truthy(prompt_template, default_rag, rag_percentage) ==
    LET client_data ==
            IF rag_percentage.given /\ rag_percentage.value # 0
            THEN [rag_percentage |-> rag_percentage.value,
                  creativity_percentage |-> 100 - rag_percentage.value,
                  llm_percentage |-> 100 - rag_percentage.value]
            ELSE [rag_percentage |-> default_rag,
                  creativity_percentage |-> 100 - default_rag,
                  llm_percentage |-> 100 - default_rag]
    IN  IF prompt_template.placeholders
        THEN [placeholders |-> FALSE, rag |-> client_data.rag_percentage,
              creativity |-> client_data.creativity_percentage,
              llm |-> client_data.llm_percentage]
        ELSE prompt_template

\* DynamicConfigManager.get_system_prompt(mode, rag_percentage): default_rag
\* is the mode's default_rag_percentage, rag_percentage None or an integer
get_system_prompt(prompt_template, default_rag, rag_percentage) ==
    LET client_data ==
            IF rag_percentage.given
            THEN [rag_percentage |-> rag_percentage.value,
                  creativity_percentage |-> 100 - rag_percentage.value,
                  llm_percentage |-> 100 - rag_percentage.value]
            ELSE [rag_percentage |-> default_rag,
                  creativity_percentage |-> 100 - default_rag,
                  llm_percentage |-> 100 - default_rag]
    IN  IF prompt_template.placeholders
        THEN [placeholders |-> FALSE, rag |-> client_data.rag_percentage,
              creativity |-> client_data.creativity_percentage,
              llm |-> client_data.llm_percentage]
        ELSE prompt_template

\* the renderings under test: get_system_prompt with and without an explicit
\* percentage over the template of the base configuration, and
\* _update_system_prompt_with_percentage over the mode's current prompt, which
\* is the template or, after an earlier update, an already rendered prompt
PromptCalls ==
    [fn : {"get_system_prompt"},
     rag_percentage : {NoOverride} \cup {Override(r) : r \in Percentages},
     default_rag : {60, 100}, template : {Template}, out : {Template},
     done : {FALSE}]
    \cup
    [fn : {"_update_system_prompt_with_percentage"},
     rag_percentage : {Override(r) : r \in Percentages},
     default_rag : {60}, template : {Template, FormatPrompt(Template, 50)},
     out : {Template}, done : {FALSE}]

\* a call of DynamicConfigManager.get_system_prompt
GetSystemPrompt ==
    /\ call.fn = "get_system_prompt"
    /\ ~call.done
    /\ call' = [call EXCEPT !.out = get_system_prompt(call.template, call.default_rag,
                                                      call.rag_percentage),
                            !.done = TRUE]
    /\ UNCHANGED <<storeVars, fquery, ragVars>>

\* a call of SystemConfigurationManager._update_system_prompt_with_percentage
UpdateSystemPromptWithPercentage ==
    /\ call.fn = "_update_system_prompt_with_percentage"
    /\ ~call.done
    /\ call' = [call EXCEPT !.out = FormatPrompt(call.template,
                                                 call.rag_percentage.value),
                            !.done = TRUE]
    /\ UNCHANGED <<storeVars, fquery, ragVars>>

\* the vectors handed to the primitives of math_utils: every vector of at
\* most MaxDim components out of a few values
VectorsOver(components, n) == UNION { [1..m -> components] : m \in 0..n }

ListsOver(elements, n) == UNION { [1..m -> elements] : m \in 0..n }

PairVectors == VectorsOver({-1, 0, 1}, MaxDim)

MeanVectors == VectorsOver({0, 1}, MaxDim)

TopVectors == { <<1, 0>>, <<0, 1>>, <<-1, 0>>, <<1, 1>>, <<0, 0>>, <<1>> }

TopQueries == { <<1, 0>>, <<1, 1>>, <<0, 0>> }

\* (id, vector) tuples: the id of a candidate is its place in the list
Candidates(vs) == [i \in 1..Len(vs) |-> [id |-> i, vec |-> vs[i]]]

MathCall(fn, vec1, vec2, vectors, k) ==
    [fn |-> fn, vec1 |-> vec1, vec2 |-> vec2, vectors |-> vectors, k |-> k,
     raised |-> FALSE, value |-> Frac(0, 1), list |-> <<>>, done |-> FALSE]

MathCalls ==
    { MathCall(fn, vec1, vec2, <<>>, 0) :
          fn \in {"cosine_similarity", "euclidean_distance", "dot_product"},
          vec1 \in PairVectors, vec2 \in PairVectors }
    \cup
    { MathCall("vector_mean", <<>>, <<>>, vectors, 0) :
          vectors \in ListsOver(MeanVectors, MaxCandidates - 1) }
    \cup
    { MathCall("top_k_similar", query_vector, <<>>, Candidates(vs), k) :
          query_vector \in TopQueries, vs \in ListsOver(TopVectors, MaxCandidates),
          k \in {0, 1, MaxCandidates - 1, MaxCandidates, MaxCandidates + 1} }

\* a call of cosine_similarity(vec1, vec2)
CosineSimilarity ==
    /\ call.fn = "cosine_similarity"
    /\ ~call.done
    /\ LET r == cosine_similarity(call.vec1, call.vec2)
       IN  call' = [call EXCEPT !.raised = r.raised, !.value = r.value, !.done = TRUE]
    /\ UNCHANGED <<storeVars, fquery, ragVars>>

\* a call of euclidean_distance(vec1, vec2)
EuclideanDistance ==
    /\ call.fn = "euclidean_distance"
    /\ ~call.done
    /\ LET r == euclidean_distance(call.vec1, call.vec2)
       IN  call' = [call EXCEPT !.raised = r.raised, !.value = r.value, !.done = TRUE]
    /\ UNCHANGED <<storeVars, fquery, ragVars>>

\* a call of dot_product(vec1, vec2)
DotProduct ==
    /\ call.fn = "dot_product"
    /\ ~call.done
    /\ LET r == dot_product(call.vec1, call.vec2)
       IN  call' = [call EXCEPT !.raised = r.raised, !.value = r.value, !.done = TRUE]
    /\ UNCHANGED <<storeVars, fquery, ragVars>>

\* a call of vector_mean(vectors)
VectorMean ==
    /\ call.fn = "vector_mean"
    /\ ~call.done
    /\ LET r == vector_mean(call.vectors)
       IN  call' = [call EXCEPT !.raised = r.raised, !.list = r.list, !.done = TRUE]
    /\ UNCHANGED <<storeVars, fquery, ragVars>>

\* a call of top_k_similar(query_vector, vectors, k)
TopKSimilar ==
    /\ call.fn = "top_k_similar"
    /\ ~call.done
    /\ LET r == top_k_similar(call.vec1, call.vectors, call.k)
       IN  call' = [call EXCEPT !.raised = r.raised, !.list = r.list, !.done = TRUE]
    /\ UNCHANGED <<storeVars, fquery, ragVars>>

\* ------------------------------------------------------------ specifications
InitStore ==
    /\ documents = <<>>
    /\ document_ids = <<>>
    /\ embeddings_matrix = NoMatrix
    /\ file = NoFile
    /\ saved = <<>>
    /\ nextId = 0
    /\ last = Outcome("init", 0, TRUE, FALSE)
    /\ threads = [t \in Threads |-> IdleThread]

InitRag ==
    /\ endpoints = DefaultEndpoints
    /\ rag_modes = DefaultRagModes
    /\ saved_config = DefaultRagModes
    /\ response = NoResponse

Init == InitStore /\ fquery = NoQuery /\ call = NoCall /\ InitRag

\* the store in memory
Next ==
    \/ \E input \in AddInputs, embedding \in DocEmbeddings : AddDocument(input, embedding)
    \/ \E doc_id \in 1..MaxAdds : DeleteDocument(doc_id)
    \/ ClearAll
    \/ \E q \in QueryEmbeddings, k \in Ks, f \in Filters, m \in MinSimilarities :
           SimilaritySearch(q, k, f, m)

Spec == Init /\ [][Next]_vars

\* the store with its snapshot file
NextPersist ==
    \/ \E input \in AddInputs, embedding \in PersistDocEmbeddings :
           AddDocument(input, embedding)
    \/ \E doc_id \in 1..MaxAdds : DeleteDocument(doc_id)
    \/ ClearAll
    \/ \E io_ok \in BOOLEAN : SaveToFile(io_ok)
    \/ LoadFromFile
    \/ \E q \in PersistQueryEmbeddings, k \in 1..MaxK, f \in PersistFilters :
           SimilaritySearch(q, k, f, Frac(0, 1))

SpecPersist == Init /\ [][NextPersist]_vars

\* the store loading a file it finds on disk
InitLoad ==
    /\ documents = <<>>
    /\ document_ids = <<>>
    /\ embeddings_matrix = NoMatrix
    /\ file \in LoadFiles
    /\ saved = <<>>
    /\ nextId = 0
    /\ last = Outcome("init", 0, TRUE, FALSE)
    /\ threads = [t \in Threads |-> IdleThread]
    /\ fquery = NoQuery
    /\ call = NoCall
    /\ InitRag

NextLoad ==
    \/ \E input \in AddInputs, embedding \in PersistDocEmbeddings :
           AddDocument(input, embedding)
    \/ \E doc_id \in (1..MaxAdds) \cup FileIds : DeleteDocument(doc_id)
    \/ ClearAll
    \/ LoadFromFile

SpecLoad == InitLoad /\ [][NextLoad]_vars

\* _filter_by_metadata as a function of the dictionary and the predicate
InitFilter ==
    /\ InitStore
    /\ InitRag
    /\ fquery \in [docs : FilterStores, pred : Predicates, out : {<<>>}, done : {FALSE}]
    /\ call = NoCall

NextFilter == ApplyFilter

SpecFilter == InitFilter /\ [][NextFilter]_vars

\* requests to the RAG system; they read the endpoints only, never the
\* modes of the configuration manager, whose updates NextConfig covers
NextRag ==
    \E mode \in Modes, override \in Overrides, searchable \in BOOLEAN,
       ranked \in 0..MaxRanked :
        ProcessQuery(mode, override, searchable, ranked)

SpecRag == Init /\ [][NextRag]_vars

\* administrative updates of the configuration
NextConfig ==
    \/ \E mode \in Modes \cup {"unknown"}, kwargs \in ConfigKwargs :
           UpdateRagModeConfig(mode, kwargs)
    \/ \E preset_name \in DOMAIN Presets \cup {"unknown"} :
           ApplyConfigurationPreset(preset_name)
    \/ \E config_data \in ImportData : ImportConfiguration(config_data)

SpecConfig == Init /\ [][NextConfig]_vars

\* _enrich_metadata as a function of the caller's metadata
InitEnrich ==
    /\ InitStore
    /\ InitRag
    /\ fquery = NoQuery
    /\ call \in [fn : {"enrich"}, content : EnrichContents, metadata : EnrichMetadatas,
                 now : {1}, out : {EmptyDict}, done : {FALSE}]

NextEnrich == Enrich

SpecEnrich == InitEnrich /\ [][NextEnrich]_vars

\* the rendering of a system prompt as a function of the percentage
InitPrompt ==
    /\ InitStore
    /\ InitRag
    /\ fquery = NoQuery
    /\ call \in PromptCalls

NextPrompt ==
    \/ GetSystemPrompt
    \/ UpdateSystemPromptWithPercentage

SpecPrompt == InitPrompt /\ [][NextPrompt]_vars

\* the primitives of math_utils as functions of their arguments
InitMath ==
    /\ InitStore
    /\ InitRag
    /\ fquery = NoQuery
    /\ call \in MathCalls

NextMath ==
    \/ CosineSimilarity
    \/ EuclideanDistance
    \/ DotProduct
    \/ VectorMean
    \/ TopKSimilar

SpecMath == InitMath /\ [][NextMath]_vars

\* two request threads calling the store at the same time
NextThreads ==
    \E t \in Threads :
        \/ \E embedding \in ThreadDocEmbeddings : TAddCreate(t, embedding)
        \/ TAddStore(t)
        \/ TAddIds(t)
        \/ TAddMatrix(t)
        \/ \E doc_id \in 1..MaxAdds : TDeleteTest(t, doc_id)
        \/ TDeleteDict(t)
        \/ TDeleteIds(t)
        \/ TDeleteMatrix(t)
        \/ \E q \in ThreadQueryEmbeddings : TSearchStart(t, q, MaxK)
        \/ TSearchIter(t)
        \/ TSearchNext(t)

SpecThreads == Init /\ [][NextThreads]_vars

\* ================================================================= claims
\* what the predicate asks of a chunk's metadata: every key is present and
\* its value meets the key's constraint
Satisfies(metadata, pred) ==
    \A i \in 1..Len(pred) :
        LET key == pred[i][1]
            value == pred[i][2]
        IN  /\ key \in DOMAIN metadata
            /\ CASE value.kind = "scalar" -> metadata[key] = value.v
                 [] value.kind = "list" -> \E n \in 1..Len(value.l) : value.l[n] = metadata[key]
                 [] OTHER ->
                      /\ ("gte" \in DOMAIN value.d => metadata[key] >= value.d["gte"])
                      /\ ("lte" \in DOMAIN value.d => metadata[key] <= value.d["lte"])
                      /\ ("in" \in DOMAIN value.d =>
                             \E n \in 1..Len(value.d["in"]) : value.d["in"][n] = metadata[key])

\* the score is the cosine of the two vectors: score = sign(a.b) (a.b)^2 / (|a|^2 |b|^2),
\* and 0 when a magnitude is 0
IsCosineOf(score, a, b) ==
    /\ Len(a) = Len(b)
    /\ LET dot == SumTo([i \in 1..Len(a) |-> a[i] * b[i]], Len(a))
           na  == SumTo([i \in 1..Len(a) |-> a[i] * a[i]], Len(a))
           nb  == SumTo([i \in 1..Len(b) |-> b[i] * b[i]], Len(b))
       IN  IF na = 0 \/ nb = 0 THEN score.num = 0
           ELSE score.num * na * nb = (IF dot < 0 THEN -1 ELSE 1) * dot * dot * score.den

InStore(doc) == \E i \in 1..Len(documents) : documents[i].doc = doc

\* a search whose query could be embedded
Searched == last.op = "search" /\ last.q.ok /\ Len(last.q.vec) > 0

\* C1: every (chunk, score) pair similarity_search returns is a chunk of the
\* store that matches the metadata filter when one is given, its score is the
\* cosine similarity of the query embedding and the chunk's embedding, and
\* the score is at least min_similarity.
C1_ResultsAreMatchingScoredChunks ==
    last.op = "search" =>
        \A i \in 1..Len(last.results) :
            LET r == last.results[i]
            IN  /\ InStore(r.doc)
                /\ (last.filter.given => Satisfies(r.doc.metadata, last.filter.pred))
                /\ IsCosineOf(r.score, last.q.vec, r.doc.embedding)
                /\ ScoreGeq(r.score, last.min_similarity)

\* a filtered search returned a chunk while a chunk outside the filter, with
\* a score that passes the threshold, stayed out
C1_Witness ==
    /\ Searched
    /\ last.filter.given /\ Len(last.filter.pred) > 0
    /\ Len(last.results) > 0
    /\ \E i \in 1..Len(documents) :
          /\ ~Satisfies(documents[i].doc.metadata, last.filter.pred)
          /\ Len(documents[i].doc.embedding) = Len(last.q.vec)
          /\ ScoreGeq(cosine_similarity(last.q.vec, documents[i].doc.embedding).value,
                      last.results[1].score)

\* C2: the results are in order of non-increasing score, and of two results
\* with equal score the chunk inserted first comes first.
C2_OrderedByScoreThenInsertion ==
    last.op = "search" =>
        \A i \in 1..Len(last.results) : \A j \in 1..Len(last.results) :
            i < j =>
                /\ ScoreGeq(last.results[i].score, last.results[j].score)
                /\ (ScoreEq(last.results[i].score, last.results[j].score)
                      => last.results[i].doc.created_at < last.results[j].doc.created_at)

\* two chunks with different embeddings tie in a store that equals its
\* snapshot, and the search returned the first of the two, or both in order
C2_Witness ==
    /\ Searched
    /\ file.exists /\ saved = documents
    /\ Len(last.results) >= 1
    /\ \E i \in 1..Len(documents) : \E j \in 1..Len(documents) :
          /\ i < j
          /\ documents[i].doc.embedding # documents[j].doc.embedding
          /\ last.results[1].doc = documents[i].doc
          /\ ScoreEq(cosine_similarity(last.q.vec, documents[i].doc.embedding).value,
                     cosine_similarity(last.q.vec, documents[j].doc.embedding).value)
          /\ (Len(last.results) >= 2 => last.results[2].doc = documents[j].doc)

\* the chunks that qualify for the last search: they match the filter and
\* have a score of at least min_similarity
Qualifying ==
    { i \in 1..Len(documents) :
        /\ (last.filter.given => Satisfies(documents[i].doc.metadata, last.filter.pred))
        /\ Len(documents[i].doc.embedding) = Len(last.q.vec)
        /\ ScoreGeq(cosine_similarity(last.q.vec, documents[i].doc.embedding).value,
                    last.min_similarity) }

\* C3: similarity_search returns the first k qualifying candidates: the
\* result has min(k, number of qualifying candidates) elements, no qualifying
\* candidate left out has a strictly higher score than one returned, and an
\* empty store gives the empty list.
C3_ReturnsFirstKQualifying ==
    Searched =>
        /\ Len(last.results) = Min2(last.k, Cardinality(Qualifying))
        /\ \A i \in Qualifying :
              (\A n \in 1..Len(last.results) : last.results[n].doc # documents[i].doc)
              => \A n \in 1..Len(last.results) :
                    ~ScoreGt(cosine_similarity(last.q.vec, documents[i].doc.embedding).value,
                             last.results[n].score)
        /\ (Len(documents) = 0 => last.results = <<>> /\ ~last.raised)

\* C4: a query embedding whose length differs from that of the stored
\* embeddings makes similarity_search fail with an error that reaches the
\* caller; no result list is returned.
C4_DimensionMismatchReachesCaller ==
    ( /\ Searched
      /\ \E i \in 1..Len(documents) : Len(documents[i].doc.embedding) # Len(last.q.vec) )
    => last.raised

\* C5: all stored embeddings have the same non-zero length.
C5_UniformNonZeroDimension ==
    \A i \in 1..Len(documents) :
        /\ Len(documents[i].doc.embedding) > 0
        /\ \A j \in 1..Len(documents) :
              Len(documents[i].doc.embedding) = Len(documents[j].doc.embedding)

\* C6: delete_document returns whether the id was present; a present id is
\* removed with nothing else touched, an absent id changes nothing, so a
\* second delete of the same id returns False and leaves the store as the
\* first left it.
C6_DeleteIdempotent ==
    [][ last'.op = "delete" =>
          LET id == last'.id
              present == \E i \in 1..Len(documents) : documents[i].key = id
          IN  /\ last'.ok = present
              /\ ~last'.raised
              /\ \A i \in 1..Len(documents') : documents'[i].key # id
              /\ id \notin Range(document_ids')
              /\ (~present =>
                     UNCHANGED <<documents, document_ids, embeddings_matrix>>)
              /\ (present =>
                     /\ documents' = SelectSeq(documents, LAMBDA e : e.key # id)
                     /\ document_ids' = SelectSeq(document_ids, LAMBDA x : x # id)
                     /\ embeddings_matrix' =
                            IF Len(documents') = 0 THEN NoMatrix
                            ELSE [none |-> FALSE,
                                  rows |-> [i \in 1..Len(documents') |->
                                              documents'[i].doc.embedding]])
              /\ ( (last.op = "delete" /\ last.id = id /\ last.ok) =>
                     /\ ~last'.ok
                     /\ UNCHANGED <<documents, document_ids, embeddings_matrix>> )
      ]_vars

\* a delete of an id that was handed out and is gone returned False while
\* another chunk is still stored
C6_Witness ==
    /\ last.op = "delete"
    /\ ~last.ok
    /\ last.id <= nextId
    /\ Len(documents) > 0

\* C7: a store loaded from the snapshot of a store holds the same chunks in
\* the same order, and every search gives the same results on both.
C7_RoundTrip ==
    (last.op = "load" /\ last.ok) =>
        /\ documents = saved
        /\ document_ids = [i \in 1..Len(saved) |-> saved[i].key]
        /\ \A q \in PersistQueryEmbeddings, k \in 1..MaxK, f \in PersistFilters :
              similarity_search(documents, q, k, f, Frac(0, 1))
                  = similarity_search(saved, q, k, f, Frac(0, 1))

\* a snapshot of two chunks has been loaded back
C7_Witness ==
    /\ last.op = "load"
    /\ last.ok
    /\ Len(saved) = 2
    /\ Len(documents) = 2

\* C8: _filter_by_metadata returns exactly the chunks that satisfy every key
\* of the predicate, in dictionary order; the empty predicate keeps every
\* chunk and a list predicate with an empty list keeps none.
C8_FilterIsConjunction ==
    fquery.done =>
        /\ fquery.out = SelectSeq(fquery.docs,
                                  LAMBDA e : Satisfies(e.doc.metadata, fquery.pred))
        /\ (Len(fquery.pred) = 0 => fquery.out = fquery.docs)
        /\ ( (\E i \in 1..Len(fquery.pred) :
                 fquery.pred[i][2].kind = "list" /\ Len(fquery.pred[i][2].l) = 0)
             => fquery.out = <<>> )

\* a predicate of two keys, one of them a range, kept one chunk of two
C8_Witness ==
    /\ fquery.done
    /\ Len(fquery.pred) = 2
    /\ Len(fquery.docs) = 2
    /\ Len(fquery.out) = 1

\* C9: a chunk whose metadata lacks a key of the predicate is never returned,
\* whatever the form of the constraint on that key.
C9_MissingKeyNeverMatches ==
    fquery.done =>
        \A n \in 1..Len(fquery.out) : \A i \in 1..Len(fquery.pred) :
            fquery.pred[i][1] \in DOMAIN fquery.out[n].doc.metadata

\* a range object without any recognised bound on a key that one chunk lacks:
\* that chunk is left out, the other is kept
C9_Witness ==
    /\ fquery.done
    /\ Len(fquery.pred) = 1
    /\ fquery.pred[1][2].kind = "dict"
    /\ DOMAIN fquery.pred[1][2].d \cap {"gte", "lte", "in"} = {}
    /\ Len(fquery.docs) = 2
    /\ fquery.pred[1][1] \notin DOMAIN fquery.docs[1].doc.metadata
    /\ fquery.out = <<fquery.docs[2]>>

\* C10: a hybrid request that carries a rag_percentage override succeeds only
\* when the override lies within [min_rag_percentage, max_rag_percentage] of
\* the mode, otherwise it is rejected and the override is not applied.
C10_OverrideWithinBoundsOrRejected ==
    ( /\ response.op = "query"
      /\ response.mode = "hybrid"
      /\ response.override.given
      /\ response.status # 400 )
    => IF /\ rag_modes["hybrid"].min_rag_percentage <= response.override.value
          /\ response.override.value <= rag_modes["hybrid"].max_rag_percentage
       THEN response.ok /\ response.rag_percentage = response.override.value
       ELSE response.raised /\ endpoints["hybrid"].rag_percentage # response.override.value

\* C11: after any sequence of administrative updates every RAG mode keeps
\* 0 <= min_rag_percentage <= default_rag_percentage <= max_rag_percentage <= 100.
C11_ModeBoundsInvariant ==
    \A m \in DOMAIN rag_modes :
        /\ 0 <= rag_modes[m].min_rag_percentage
        /\ rag_modes[m].min_rag_percentage <= rag_modes[m].default_rag_percentage
        /\ rag_modes[m].default_rag_percentage <= rag_modes[m].max_rag_percentage
        /\ rag_modes[m].max_rag_percentage <= 100

\* C12: update_rag_mode_config with a rag_percentage outside the mode's
\* [min_rag_percentage, max_rag_percentage] raises and leaves the configuration
\* in memory and the configuration file as they were, whatever other keyword
\* arguments the call carries; an unknown mode returns False and changes
\* nothing either.
C12_RejectedUpdateChangesNothing ==
    [][ response'.op = "update" =>
          /\ ( response'.mode \in DOMAIN rag_modes
               /\ OutOfBounds(rag_modes[response'.mode], response'.kwargs) )
             => ( /\ response'.raised
                  /\ ~response'.ok
                  /\ rag_modes' = rag_modes
                  /\ saved_config' = saved_config )
          /\ response'.mode \notin DOMAIN rag_modes
             => ( /\ ~response'.raised
                  /\ ~response'.ok
                  /\ rag_modes' = rag_modes
                  /\ saved_config' = saved_config ) ]_vars

\* a call that carried an out-of-bounds rag_percentage together with another
\* keyword argument has been rejected
C12_Witness ==
    /\ response.op = "update"
    /\ response.raised
    /\ response.mode = "hybrid"
    /\ DOMAIN response.kwargs = {"rag_percentage", "default_rag_percentage"}
    /\ rag_modes["hybrid"].default_rag_percentage # response.kwargs["default_rag_percentage"]

\* the three fields of the store describe the same set of chunks
StoreConsistent ==
    /\ document_ids = [i \in 1..Len(documents) |-> documents[i].key]
    /\ embeddings_matrix = _update_embeddings_matrix(documents)

\* C13: under concurrent callers a thread that reads the store (one that is
\* about to call it, or is inside similarity_search) finds documents,
\* document_ids and embeddings_matrix describing the same chunks, each chunk
\* whole, and a finished search returned the correct result for one of the
\* values the dictionary had while it ran.
C13_MutationsSerialized ==
    \A t \in Threads :
        /\ threads[t].pc \in {"idle", "search_iter", "search_loop"}
           => /\ StoreConsistent
              /\ \A i \in 1..Len(documents) :
                     DOMAIN documents[i].doc = ChunkFields
        /\ threads[t].ret.op = "search"
           => \E d \in threads[t].stores :
                  threads[t].ret.results =
                      similarity_search(d, Embedding(threads[t].q), threads[t].k,
                                        NoFilter, Frac(0, 1))

\* C14: when the embedding provider fails for the query text, the search
\* does not return an ordinary result: the failure reaches the caller as an
\* error.
C14_EmbeddingFailureReachesCaller ==
    ( /\ last.op = "search"
      /\ ~last.q.ok )
    => ( /\ last.raised
         /\ ~last.ok )

\* the ids of the stored chunks are pairwise different and each chunk is
\* filed under its own id
UniqueIds(d) ==
    /\ \A i, j \in 1..Len(d) : i # j => d[i].doc.id # d[j].doc.id
    /\ \A i \in 1..Len(d) : d[i].key = d[i].doc.id

\* C15: a successful add_document returns an id that was no key of the store
\* before the call and is one afterwards; the store grows by exactly one
\* chunk, which holds the given content and embedding; the chunks stored
\* before are unchanged; and no two chunks ever share an id.
C15_AddReturnsFreshId ==
    [][ /\ UniqueIds(documents')
        /\ \A input \in AddInputs, embedding \in PersistDocEmbeddings :
             ( AddDocument(input, embedding) /\ last'.ok )
             => ( /\ ~HasKey(documents, last'.id)
                  /\ HasKey(documents', last'.id)
                  /\ Len(documents') = Len(documents) + 1
                  /\ \A i \in 1..Len(documents) : documents'[i] = documents[i]
                  /\ documents'[Len(documents')].key = last'.id
                  /\ documents'[Len(documents')].doc.content = input.content
                  /\ documents'[Len(documents')].doc.embedding = embedding.vec ) ]_vars

\* an add has succeeded after an earlier chunk had been deleted: the store
\* holds fewer chunks than ids were handed out
C15_Witness ==
    /\ last.op = "add"
    /\ last.ok
    /\ Len(documents) >= 1
    /\ last.id > Len(documents)

\* the first category of the table, in declared order, one of whose
\* keywords occurs in the text; general_research when none does
FirstMatch(text) ==
    LET hits == {i \in 1..Len(StudyTypes) : StudyTypes[i].keywords \cap KeywordsIn(text) # {}}
    IN  IF hits = {} THEN "general_research"
        ELSE StudyTypes[CHOOSE i \in hits : \A j \in hits : i <= j].type

\* C16: the enriched metadata keeps every value the caller supplied; a
\* missing study_type is the first matching category for the declared
\* document name or the content, a missing year is the current year, a
\* missing confidence_score is 1.0.
C16_DefaultsOnlyWhereMissing ==
    ( call.fn = "enrich" /\ call.done )
    => LET given == call.metadata
           enriched == call.out
       IN  /\ \A k \in DOMAIN given : k \in DOMAIN enriched /\ enriched[k] = given[k]
           /\ {"study_type", "year", "confidence_score"} \subseteq DOMAIN enriched
           /\ "study_type" \notin DOMAIN given
              => enriched["study_type"] \in
                     { FirstMatch(DictGet(given, "document_name", "")),
                       FirstMatch(call.content) }
           /\ "year" \notin DOMAIN given => enriched["year"] = CurrentYear
           /\ "confidence_score" \notin DOMAIN given => enriched["confidence_score"] = 1

\* a name with keywords of two categories was classified, and a supplied
\* confidence_score of 0 was kept
C16_Witness ==
    /\ call.fn = "enrich"
    /\ call.done
    /\ "study_type" \notin DOMAIN call.metadata
    /\ DictGet(call.metadata, "document_name", "") = "Pack Concept 2020"
    /\ call.out["study_type"] = "concept_test"
    /\ DictGet(call.metadata, "confidence_score", 1) = 0
    /\ call.out["confidence_score"] = 0

\* C17: clear_all leaves documents, document_ids and embeddings_matrix
\* empty whatever the store held; a search on the emptied store returns [];
\* and the insertion that follows is accepted with an embedding of any
\* length, whatever lengths the store held before.
C17_ClearEmptiesStore ==
    [][ /\ last'.op = "clear"
           => ( /\ documents' = <<>>
                /\ document_ids' = <<>>
                /\ embeddings_matrix' = NoMatrix
                /\ last'.ok )
        /\ ( last.op = "clear" /\ last'.op = "search" ) => last'.results = <<>>
        /\ last.op = "clear"
           => \A input \in AddInputs, embedding \in DocEmbeddings :
                 ( /\ AddDocument(input, embedding)
                   /\ embedding.ok
                   /\ Len(embedding.vec) > 0 )
                 => ( /\ last'.ok
                      /\ Len(documents') = 1
                      /\ documents'[1].doc.embedding = embedding.vec ) ]_vars

\* a store that held a chunk has been cleared and can take another insertion
C17_Witness ==
    /\ last.op = "clear"
    /\ nextId >= 1
    /\ nextId < MaxAdds
    /\ documents = <<>>
    /\ embeddings_matrix = NoMatrix

\* C18: a rag_percentage override sent with a pure or creative request
\* changes nothing: the endpoint configuration is left as it was, the
\* percentage reported is the configured one, and the pure and creative
\* endpoints keep their configured percentage through every later request.
C18_OverrideOnlyInHybrid ==
    [][ /\ ( response'.op = "query" /\ response'.mode # "hybrid" )
           => ( /\ endpoints' = endpoints
                /\ response'.ok
                   => response'.rag_percentage =
                          endpoints[response'.mode].rag_percentage )
        /\ \A m \in Modes \ {"hybrid"} :
               endpoints'[m].rag_percentage = DefaultEndpoints[m].rag_percentage ]_vars

\* a creative request carrying an override has been answered
C18_Witness ==
    /\ response.op = "query"
    /\ response.mode = "creative"
    /\ response.ok
    /\ response.override.given
    /\ response.override.value # response.rag_percentage

\* C20: a completed request surfaces min(ranked results, max_context_chunks)
\* passages, as citations and as chunks_retrieved; with no ranked result it
\* still completes, with no passage and with percentages that are valid.
C20_PassagesBoundedByMaxContextChunks ==
    ( response.op = "query" /\ response.status # 400 )
    => ( /\ response.ok
         /\ response.chunks_retrieved = Min2(response.ranked, response.max_context_chunks)
         /\ Len(response.citations) = response.chunks_retrieved
         /\ response.chunks_retrieved <= response.max_context_chunks
         /\ response.ranked = 0
            => ( /\ response.citations = <<>>
                 /\ response.rag_percentage \in 0..100
                 /\ 100 - response.rag_percentage \in 0..100 ) )

\* C19: a prompt rendered from the RAG percentage r, given explicitly or
\* taken from the mode's default, carries r and, as creativity_percentage and
\* as llm_percentage, 100 - r; in every rendering the RAG share and the
\* creativity share add up to 100.
C19_CreativityIsComplement ==
    ( call.fn \in {"get_system_prompt", "_update_system_prompt_with_percentage"}
      /\ call.done )
    => LET r == IF call.rag_percentage.given THEN call.rag_percentage.value
                ELSE call.default_rag
       IN  /\ ~call.out.placeholders
           /\ call.out.rag + call.out.creativity = 100
           /\ call.out.llm = call.out.creativity
           /\ call.template.placeholders
              => ( /\ call.out.rag = r
                   /\ call.out.creativity = 100 - r
                   /\ call.out.llm = 100 - r )

\* a prompt has been rendered from an explicit percentage of 0
C19_Witness ==
    /\ call.fn = "get_system_prompt"
    /\ call.done
    /\ call.rag_percentage = Override(0)
    /\ call.out.creativity = 100

\* C21: cosine_similarity, euclidean_distance and dot_product raise, and
\* return no value, exactly when their two vectors differ in length;
\* vector_mean raises exactly when some vector's length differs from the
\* first one's, and returns the empty vector for the empty list.
C21_UnequalLengthsRejected ==
    call.done =>
        /\ call.fn \in {"cosine_similarity", "euclidean_distance", "dot_product"}
           => ( call.raised <=> Len(call.vec1) # Len(call.vec2) )
        /\ call.fn = "vector_mean"
           => /\ call.raised
                 <=> \E i \in 1..Len(call.vectors) :
                         Len(call.vectors[i]) # Len(call.vectors[1])
              /\ call.raised => call.list = <<>>
              /\ Len(call.vectors) = 0 => ( ~call.raised /\ call.list = <<>> )
              /\ ( ~call.raised /\ Len(call.vectors) > 0 )
                 => Len(call.list) = Len(call.vectors[1])

\* each primitive has rejected vectors of unequal length: here dot_product,
\* whose zip would otherwise have stopped at the shorter vector
C21_Witness ==
    /\ call.fn = "dot_product"
    /\ call.done
    /\ call.raised
    /\ Len(call.vec1) = 2
    /\ Len(call.vec2) = 1

\* the magnitude of a vector is zero
IsZero(vec) == \A i \in 1..Len(vec) : vec[i] = 0

\* C22: cosine_similarity of two vectors of equal length, one of which has
\* zero magnitude, returns exactly 0.0 and raises nothing, also for the zero
\* vector with itself.
C22_ZeroMagnitudeGivesZero ==
    ( /\ call.fn = "cosine_similarity"
      /\ call.done
      /\ Len(call.vec1) = Len(call.vec2)
      /\ IsZero(call.vec1) \/ IsZero(call.vec2) )
    => ( /\ ~call.raised
         /\ call.value.num = 0
         /\ call.value.den # 0 )

\* the zero vector of two components has been compared with itself
C22_Witness ==
    /\ call.fn = "cosine_similarity"
    /\ call.done
    /\ call.vec1 = <<0, 0>>
    /\ call.vec2 = <<0, 0>>
    /\ ~call.raised

\* C23: for non-zero vectors of equal length, cosine_similarity(a, a) is 1,
\* cosine_similarity(a, b) is 0 when the dot product of a and b is 0, and
\* cosine_similarity(a, -a) is -1; the score is kept as a signed square, which
\* is 1, 0 or -1 exactly when the cosine is.
C23_IdenticalOrthogonalOpposite ==
    ( /\ call.fn = "cosine_similarity"
      /\ call.done
      /\ Len(call.vec1) = Len(call.vec2)
      /\ ~IsZero(call.vec1)
      /\ ~IsZero(call.vec2) )
    => ( /\ ~call.raised
         /\ call.vec1 = call.vec2 => ScoreEq(call.value, Frac(1, 1))
         /\ SumTo([i \in 1..Len(call.vec1) |-> call.vec1[i] * call.vec2[i]],
                  Len(call.vec1)) = 0
            => ScoreEq(call.value, Frac(0, 1))
         /\ call.vec2 = [i \in 1..Len(call.vec1) |-> 0 - call.vec1[i]]
            => ScoreEq(call.value, Frac(-1, 1)) )

\* the third assertion of the self-test: [1, 0] against [-1, 0]
C23_Witness ==
    /\ call.fn = "cosine_similarity"
    /\ call.done
    /\ call.vec1 = <<1, 0>>
    /\ call.vec2 = <<-1, 0>>
    /\ ScoreEq(call.value, Frac(-1, 1))

\* C24: top_k_similar over candidates of the query's length returns
\* min(k, number of candidates) pairs, each a candidate's id with its cosine
\* similarity, in non-increasing order of score, equal scores in the order of
\* the candidates; no candidate left out scores higher than one returned, or
\* equally and stands earlier.
C24_TopKStableDescending ==
    ( call.fn = "top_k_similar" /\ call.done )
    => LET n == Len(call.vectors)
           out == call.list
           score(i) == cosine_similarity(call.vec1, call.vectors[i].vec).value
           Before(i, j) == \/ ScoreGt(score(i), score(j))
                           \/ ScoreEq(score(i), score(j)) /\ i < j
       IN  /\ call.raised
              <=> \E i \in 1..n : Len(call.vectors[i].vec) # Len(call.vec1)
           /\ ~call.raised
              => /\ Len(out) = Min2(call.k, n)
                 /\ \A p \in 1..Len(out) :
                        /\ out[p].id \in 1..n
                        /\ out[p].score = score(out[p].id)
                 /\ \A p, q \in 1..Len(out) :
                        p < q => Before(out[p].id, out[q].id)
                 /\ \A i \in 1..n :
                        (\A p \in 1..Len(out) : out[p].id # i)
                        => \A p \in 1..Len(out) : Before(out[p].id, i)

\* two candidates with the same score have been returned, and a third was cut
C24_Witness ==
    /\ call.fn = "top_k_similar"
    /\ call.done
    /\ ~call.raised
    /\ Len(call.list) >= 2
    /\ Len(call.list) < Len(call.vectors)
    /\ ScoreEq(call.list[1].score, call.list[2].score)
    /\ call.list[1].id < call.list[2].id

\* C25: the override of a hybrid request is temporary: when the request has
\* returned or raised, every endpoint's configured rag_percentage is what it
\* was before the request, so a later request without an override reports
\* the originally configured percentage.
C25_OverrideIsTemporary ==
    [][ response'.op = "query"
        => /\ \A m \in Modes :
                  endpoints'[m].rag_percentage = endpoints[m].rag_percentage
           /\ ( response'.ok /\ ~response'.override.given )
              => response'.rag_percentage =
                     DefaultEndpoints[response'.mode].rag_percentage ]_vars

\* C26: in every state the store reaches through add_document,
\* delete_document, clear_all and load_from_file, failing calls included,
\* document_ids lists exactly the keys of documents, each once and in the
\* same order, and embeddings_matrix is None for the empty store and
\* otherwise the stored chunks' embeddings in that order.
C26_DerivedIndexesAgree ==
    /\ Len(document_ids) = Len(documents)
    /\ \A i \in 1..Len(documents) : document_ids[i] = documents[i].key
    /\ \A i, j \in 1..Len(document_ids) :
           i # j => document_ids[i] # document_ids[j]
    /\ embeddings_matrix.none = (Len(documents) = 0)
    /\ Len(embeddings_matrix.rows) = Len(documents)
    /\ \A i \in 1..Len(documents) :
           embeddings_matrix.rows[i] = documents[i].doc.embedding

\* C27: load_from_file is all-or-nothing: a call that returns False leaves
\* documents, document_ids and embeddings_matrix exactly as they were.
C27_FailedLoadChangesNothing ==
    [][ ( LoadFromFile /\ ~last'.ok )
        => UNCHANGED <<documents, document_ids, embeddings_matrix>> ]_vars

\* C28: after every accepted update_rag_mode_config(mode, rag_percentage=p)
\* on a mode whose prompt carries percentage placeholders (creative, hybrid),
\* the stored system_prompt states p as the RAG percentage and 100 - p as the
\* creativity and LLM percentage, however many updates came before.
C28_PromptStatesLatestPercentage ==
    [][ \A mode \in {"creative", "hybrid"}, kwargs \in ConfigKwargs :
            ( /\ UpdateRagModeConfig(mode, kwargs)
              /\ response'.ok
              /\ "rag_percentage" \in DOMAIN kwargs )
            => LET p == kwargs["rag_percentage"]
               IN  rag_modes'[mode].system_prompt =
                       [placeholders |-> FALSE, rag |-> p,
                        creativity |-> 100 - p, llm |-> 100 - p] ]_vars

\* C29: a percentage accepted by update_rag_mode_config(mode,
\* rag_percentage=p) becomes the mode's configured percentage: afterwards
\* get_rag_mode_config(mode) has default_rag_percentage = p and
\* get_configurable_parameters reports p as the current value of the mode.
C29_AcceptedPercentageIsStored ==
    [][ \A mode \in Modes, kwargs \in ConfigKwargs :
            ( /\ UpdateRagModeConfig(mode, kwargs)
              /\ response'.ok
              /\ "rag_percentage" \in DOMAIN kwargs )
            => LET p == kwargs["rag_percentage"]
               IN  /\ get_rag_mode_config(rag_modes', mode).config
                          .default_rag_percentage = p
                   /\ get_configurable_parameters(rag_modes')[mode].current = p
       ]_vars

\* C30: when the embedding provider answers nothing, or an empty vector,
\* add_document raises to its caller and leaves the store as it was: no
\* chunk inserted, documents, document_ids and embeddings_matrix unchanged.
C30_FailedAddChangesNothing ==
    [][ \A input \in AddInputs, embedding \in DocEmbeddings :
            ( /\ ( ~embedding.ok \/ Len(embedding.vec) = 0 )
              /\ AddDocument(input, embedding) )
            => ( /\ last'.op = "add"
                 /\ last'.raised
                 /\ ~last'.ok
                 /\ UNCHANGED <<documents, document_ids, embeddings_matrix>> )
      ]_vars

\* an add that raised on a store that holds a chunk
C30_Witness ==
    /\ last.op = "add"
    /\ last.raised
    /\ Len(documents) >= 1
    /\ ~embeddings_matrix.none

====
